---- MODULE Spec2Model ----
(***************************************************************************)
(* The chat responder of ao561/cues_hackathon: the relay's transcript      *)
(* (main.py), the file-watching responder (active_ai_monitor.py) with its  *)
(* trigger detector, tool dispatcher and tool-use loop, and the scanning   *)
(* detector of the MCP server (chat_monitor_mcp.py).                       *)
(*                                                                         *)
(* A message text is a sequence of tokens: single characters where the     *)
(* characters matter (the trigger word), one opaque token for a fixed      *)
(* string of the program that holds no trigger word.                       *)
(***************************************************************************)
EXTENDS Integers, Sequences, FiniteSets, TLC

VARIABLES
    chat_history,          \* chat_history.txt: the sequence of its lines
    last_processed_line,   \* .last_processed_line (0 when absent)
    last_trigger_line,     \* .last_trigger_line of the MCP server (0 when absent)
    changes,               \* awatch holds a change of chat_history.txt not yet yielded
    spurious,              \* changes reported with no new line (history, bounded)
    pc,                    \* where monitor_loop is
    recent_messages,       \* monitor_loop: result of get_recent_context()
    conversation_messages, \* generate_response: the running conversation
    response,              \* generate_response: the model's last response
    tool_results,          \* generate_response: results collected in this round
    tool_idx,              \* generate_response: index of the next tool_use to execute
    rounds,                \* completed tool rounds of this run (history)
    expired,               \* RESPONSE_TIMEOUT passed while wait_for waited for the
                           \* latest run of generate_response
    answer,                \* monitor_loop: what generate_response returned
    err_source,            \* what raised the exception generate_response caught (history)
    pushes,                \* send_to_websocket calls of the current cycle (history)
    outcome,               \* how the last cycle ended, "running" during one
    had_failure,           \* some cycle failed before now (history)
    detections,            \* the latest line count check_for_trigger read, and the
                           \* results of its calls at that count, in order (history)
    fired,                 \* the line counts at which it returned True, in order (history)
    mcp_report,            \* what the MCP server's check_for_trigger last returned
    mcp_reported,          \* the records its calls have reported as triggers, each
                           \* with the transcript length read: reported once, and
                           \* reported again at the same length (history)
    chat_exists,           \* chat_history.txt exists
    prepared_response,     \* prepared_response.json of the MCP server
    detectors,             \* detector processes beside each other: where each is in
                           \* check_for_trigger, and what it has read
    det_fired,             \* the calls of theirs that returned True, in order (history)
    reader_call,           \* the latest call of a reader of the transcript: what it
                           \* read and what came of it
    handlers,              \* main.py: where websocket_endpoint is for each connection
    inboxes,               \* what each connection has been sent, in order
    db,                    \* user_food_profiles.json
    writers,               \* the two processes that update it: where each is, and
                           \* the profiles it has loaded
    food_updates           \* the category of the latest completed update of each
                           \* user's food (history)

vars == <<chat_history, last_processed_line, last_trigger_line, changes, spurious,
          pc, recent_messages, conversation_messages, response, tool_results,
          tool_idx, rounds, expired, answer, err_source, pushes, outcome,
          had_failure, detections, fired, mcp_report, mcp_reported, chat_exists,
          prepared_response, detectors, det_fired, reader_call, handlers,
          inboxes, db, writers, food_updates>>

relay_vars == <<chat_history, changes, chat_exists>>
gen_vars == <<recent_messages, conversation_messages, response, tool_results,
              tool_idx, rounds, expired, answer>>
\* the state of the parts that run beside the responder
detector_vars == <<detectors, det_fired>>
\* main.py's connections, and the food profiles
profile_vars == <<db, writers, food_updates>>
server_vars == <<handlers, inboxes, profile_vars>>
side_vars == <<detector_vars, reader_call, server_vars>>
\* the responder's own state, and the MCP server's
monitor_vars == <<changes, spurious, pc, gen_vars, err_source, pushes, outcome,
                  had_failure, detections, fired>>
mcp_vars == <<last_trigger_line, mcp_report, mcp_reported, prepared_response>>

----------------------------------------------------------------------------
(* Bounds of the exploration *)

\* the relay takes participants' messages while the transcript is shorter
MaxLen == 2
\* change events the watcher may report without a new transcript line
MaxSpurious == 1
\* tool rounds the model service may ask for in one run, whole-system runs
MonitorRounds == 1
\* an iteration cap for the tool-use loop
IterationCap == 2
\* tool rounds the model service may ask for in one run, runs of the loop alone
MaxRounds == IterationCap + 1

----------------------------------------------------------------------------
(* Program constants *)

TRIGGER_WORD == <<"@", "a", "i">>
MAX_MESSAGES == 50
AI_SENDER == "AI Assistant"

\* texts a participant may send: no trigger, and the trigger in mixed case
PlainText == <<"h", "i">>
TriggerText == <<"h", "@", "A", "i">>

\* what participants send, as <<client name, text>>: main.py takes any client
\* name, the responder's too
UserInputs ==
    {<<"Dana", PlainText>>, <<"Dana", TriggerText>>, <<AI_SENDER, TriggerText>>}

\* what the relay is sent when the encoding of the record matters: also a
\* text with a quote and a line break, one with a backslash, an empty one
RelayInputs ==
    UserInputs \cup {<<"Dana", <<"\"", "\n">>>>, <<"Dana", <<"\\", "n">>>>,
                     <<"Dana", <<>>>>}

----------------------------------------------------------------------------
(* Text helpers *)

\* str.lower() on one character of the model's alphabet
LowerChar(c) ==
    CASE c = "A" -> "a"
      [] c = "I" -> "i"
      [] c = "H" -> "h"
      [] OTHER -> c

Lower(s) == [i \in 1..Len(s) |-> LowerChar(s[i])]

\* Python's `sub in s` on strings
Contains(sub, s) ==
    \E i \in 0..(Len(s) - Len(sub)) :
        \A j \in 1..Len(sub) : s[i + j] = sub[j]

\* the characters JSON cannot hold raw inside a string, and their escapes
\* (an escape is one token)
NEWLINE == "\n"
QUOTE == "\""
BACKSLASH == "\\"
RawSpecials == {NEWLINE, QUOTE, BACKSLASH}

EscapeChar(c) ==
    CASE c = NEWLINE -> "\\n"
      [] c = QUOTE -> "\\\""
      [] c = BACKSLASH -> "\\\\"
      [] OTHER -> c

UnescapeChar(c) ==
    CASE c = "\\n" -> NEWLINE
      [] c = "\\\"" -> QUOTE
      [] c = "\\\\" -> BACKSLASH
      [] OTHER -> c

\* an encoder that writes every character as it is
Escape_raw(text) == text

\* the string encoding of json.dumps
Escape(text) == [i \in 1..Len(text) |-> EscapeChar(text[i])]

\* the string decoding of json.loads
Unescape(text) == [i \in 1..Len(text) |-> UnescapeChar(text[i])]

\* json.dumps of {"sender": .., "message": ..}: the opening brace, the sender,
\* the encoded characters of the message, the closing brace
JsonDumps(rec) == <<"{", rec.sender>> \o Escape(rec.message) \o <<"}">>

\* json.loads(line.strip()) and the two msg.get(...) of its callers; ok = FALSE:
\* no record is got from the line (JSONDecodeError; for a line that is a JSON
\* value but no object see IsNotADict)
JsonLoads(line) ==
    IF /\ Len(line) >= 3
       /\ line[1] = "{"
       /\ line[Len(line)] = "}"
       /\ \A i \in 3..(Len(line) - 1) : line[i] \notin RawSpecials
    THEN [ok |-> TRUE, sender |-> line[2],
          message |-> Unescape(SubSeq(line, 3, Len(line) - 1))]
    ELSE [ok |-> FALSE, sender |-> "", message |-> <<>>]

\* f.readlines() on a text: its lines, ends cut off; a text that does not end
\* in a newline has a last line all the same
RECURSIVE ReadLines(_, _)
ReadLines(text, line) ==
    IF text = <<>> THEN (IF line = <<>> THEN <<>> ELSE <<line>>)
    ELSE IF Head(text) = NEWLINE THEN <<line>> \o ReadLines(Tail(text), <<>>)
    ELSE ReadLines(Tail(text), Append(line, Head(text)))

\* a relay that starts the file afresh once it holds two lines
WriteLine_rotates(history, message_json) ==
    (IF Len(history) >= 2 THEN <<>> ELSE history)
    \o ReadLines(Append(message_json, NEWLINE), <<>>)

\* open(HISTORY_FILE, "a"); f.write(message_json + "\n"): the lines a reader
\* finds in the file afterwards
WriteLine(history, message_json) ==
    history \o ReadLines(Append(message_json, NEWLINE), <<>>)

----------------------------------------------------------------------------
(* The relay: main.py *)

\* websocket_endpoint, one received text: append the record, then broadcast
UserSend(client_name, data) ==
    /\ UNCHANGED <<side_vars, prepared_response>>
    /\ chat_exists' = TRUE
    /\ Len(chat_history) < MaxLen
    /\ chat_history' = WriteLine(chat_history,
                                 JsonDumps([sender |-> client_name, message |-> data]))
    /\ changes' = TRUE
    /\ UNCHANGED <<last_processed_line, last_trigger_line, spurious, pc, gen_vars,
                   err_source, pushes, outcome, had_failure, detections, fired, mcp_report,
                   mcp_reported>>

\* an entry that broadcasts the record without appending it
SendMessageEndpoint_broadcast_only(history, sender, message) == history

\* POST /send_message, the relay's entry for the responder's pushes: the record
\* is appended to the transcript and broadcast
SendMessageEndpoint(history, sender, message) ==
    WriteLine(history, JsonDumps([sender |-> sender, message |-> message]))

----------------------------------------------------------------------------
(* The trigger detector of active_ai_monitor.py *)

\* "Don't respond to AI's own messages"
IsOwnMessage(sender) == sender = AI_SENDER

\* a detector that compares without lower()
HasTrigger_case_sensitive(message) == Contains(TRIGGER_WORD, message)

\* TRIGGER_WORD.lower() in message.lower()
HasTrigger(message) == Contains(Lower(TRIGGER_WORD), Lower(message))

\* a detector that takes the stored count itself for new
NotYetProcessed_off_by_one(current_line_count, last_processed) ==
    current_line_count >= last_processed

\* "Only trigger if we haven't processed this line number before"
NotYetProcessed(current_line_count, last_processed) ==
    current_line_count > last_processed

\* a detector that leaves the store at its start value when it fires
StoredAfterFire_not_yet(current_line_count) == 0

\* a detector that stores the position after the one it fired on
StoredAfterFire_ahead(current_line_count) == current_line_count + 1

\* set_last_processed_line(current_line_count) of a firing call: what is stored
StoredAfterFire(current_line_count) == current_line_count

\* a detector that looks at the oldest line behind the stored offset
LineChecked_oldest_new(all_lines, last_processed) ==
    IF last_processed < Len(all_lines)
    THEN all_lines[last_processed + 1]
    ELSE all_lines[Len(all_lines)]

\* last_line = all_lines[-1]: "Only check the last (newest) line"
LineChecked(all_lines, last_processed) == all_lines[Len(all_lines)]

\* check_for_trigger on the lines read and the stored offset: the pair it
\* returns, and the offset it leaves in the store
CheckForTrigger(all_lines, last_processed) ==
    LET current_line_count == Len(all_lines)
        quiet == [triggered |-> FALSE, line |-> current_line_count,
                  store |-> last_processed]
    IN  IF current_line_count = 0 THEN quiet
        ELSE LET msg == JsonLoads(LineChecked(all_lines, last_processed))
             IN  IF ~msg.ok THEN quiet
                 ELSE IF IsOwnMessage(msg.sender) THEN quiet
                 ELSE IF HasTrigger(msg.message)
                         /\ NotYetProcessed(current_line_count, last_processed)
                      THEN [triggered |-> TRUE, line |-> current_line_count,
                            store |-> StoredAfterFire(current_line_count)]
                      ELSE quiet

----------------------------------------------------------------------------
(* The tool dispatcher of active_ai_monitor.py *)

\* the "name" entries of TOOLS, in the order they are declared
TOOLS ==
    <<"check_availability", "get_current_locations", "find_common_free_time",
      "find_restaurants", "find_restaurants_by_address", "analyze_food_preferences",
      "geocode_address", "analyze_message_sentiment", "get_user_food_preferences",
      "get_group_directions", "get_travel_time_summary", "list_group_members">>

\* a dispatcher without the branch for list_group_members
HandledTools_no_members ==
    {"check_availability", "get_current_locations", "find_common_free_time",
     "find_restaurants", "find_restaurants_by_address", "analyze_food_preferences",
     "geocode_address", "analyze_message_sentiment", "get_user_food_preferences",
     "get_group_directions", "get_travel_time_summary"}

\* the names execute_tool has a branch for
HandledTools ==
    {"check_availability", "get_current_locations", "find_common_free_time",
     "find_restaurants", "find_restaurants_by_address", "analyze_food_preferences",
     "geocode_address", "analyze_message_sentiment", "get_user_food_preferences",
     "get_group_directions", "get_travel_time_summary", "list_group_members"}

\* the keys a branch of execute_tool reads with tool_input[...]: KeyError when absent
SubscriptedKeys(tool_name) ==
    CASE tool_name \in {"check_availability", "get_current_locations",
                        "find_common_free_time"} -> {"people"}
      [] tool_name = "find_restaurants" -> {"latitude", "longitude"}
      [] tool_name \in {"find_restaurants_by_address", "geocode_address"} -> {"address"}
      [] tool_name = "analyze_message_sentiment" -> {"user", "message"}
      [] tool_name = "get_user_food_preferences" -> {"user"}
      [] tool_name \in {"get_group_directions", "get_travel_time_summary"} ->
             {"restaurant_name_or_address"}
      [] OTHER -> {}

\* the handlers that await a network call (httpx); the others run to their
\* return without suspending
HandlerAwaits(tool_name) ==
    tool_name \in {"find_restaurants", "find_restaurants_by_address",
                   "geocode_address", "get_group_directions",
                   "get_travel_time_summary"}

\* whether execute_tool gets as far as calling the tool's handler
HandlerInvoked(tool_name, tool_input) ==
    tool_name \in HandledTools /\ SubscriptedKeys(tool_name) \subseteq tool_input

\* a dispatcher whose lookup of an unknown name raises
UnknownToolResult_raises(tool_name) ==
    [raised |-> TRUE, content |-> <<"KeyError: ", tool_name>>]

\* the `else` branch of execute_tool
UnknownToolResult(tool_name) ==
    [raised |-> FALSE, content |-> <<"Unknown tool: ", tool_name>>]

\* a dispatcher that lets the exception of a call through
ExceptResult_reraises(tool_name, e) ==
    [raised |-> TRUE, content |-> <<e>>]

\* `except Exception as e` of execute_tool
ExceptResult(tool_name, e) ==
    [raised |-> FALSE, content |-> <<"Error executing ", tool_name, ": ", e>>]

\* execute_tool: `handler` is what the handler does when it is called ("ok" or
\* "raises"). raised = TRUE is an exception leaving execute_tool.
ExecuteTool(tool_name, tool_input, handler) ==
    IF tool_name \notin HandledTools
    THEN UnknownToolResult(tool_name)
    ELSE IF ~(SubscriptedKeys(tool_name) \subseteq tool_input)
    THEN ExceptResult(tool_name, "KeyError")
    ELSE IF handler = "raises"
    THEN ExceptResult(tool_name, "handler error")
    ELSE [raised |-> FALSE, content |-> <<"result of ", tool_name>>]

----------------------------------------------------------------------------
(* The model service, as generate_response sees it *)

TextBlock(text) ==
    [type |-> "text", id |-> <<>>, name |-> "", input |-> {}, text |-> text]

ToolUseBlock(id, name, input) ==
    [type |-> "tool_use", id |-> id, name |-> name, input |-> input, text |-> <<>>]

\* the content of a response that asks for tools, in round r (ids are the
\* service's and unique within a conversation): one tool whose handler awaits
\* the network; or a text and three tools, the first unknown, the second
\* without its required argument, the third with a handler that does not await
SingleToolUse(r) ==
    <<ToolUseBlock(<<r, 1>>, "geocode_address", {"address"})>>

SeveralToolUses(r) ==
    <<TextBlock(<<"o", "k">>),
      ToolUseBlock(<<r, 1>>, "bogus_tool", {}),
      ToolUseBlock(<<r, 2>>, "geocode_address", {}),
      ToolUseBlock(<<r, 3>>, "list_group_members", {})>>

\* the content of a response that ends the turn: a text, a text with the
\* trigger word in it, no text at all, two text segments
PlainAnswer == <<TextBlock(<<"o", "k">>)>>
TwoTextAnswer == <<TextBlock(<<"n", "o">>), TextBlock(<<"w">>)>>
TriggerAnswer == <<TextBlock(<<"@", "a", "i">>)>>
EmptyAnswer == <<>>

\* the model service of the runs of the loop alone
LoopService ==
    [rounds |-> MaxRounds, several |-> TRUE,
     finals |-> {PlainAnswer, TriggerAnswer, EmptyAnswer, TwoTextAnswer}]

\* the model service of the whole-system runs: its answers hold the trigger word
MonitorService ==
    [rounds |-> MonitorRounds, several |-> FALSE, finals |-> {TriggerAnswer}]

\* what client.messages.create may do after `done` tool rounds
ModelResponses(done, service) ==
    {[kind |-> "raises", stop_reason |-> "", content |-> <<>>]}
    \cup {[kind |-> "response", stop_reason |-> "end_turn", content |-> c] :
              c \in service.finals}
    \cup (IF done < service.rounds
          THEN {[kind |-> "response", stop_reason |-> "tool_use", content |-> c] :
                    c \in {SingleToolUse(done + 1)}
                          \cup (IF service.several
                                THEN {SeveralToolUses(done + 1)} ELSE {})}
          ELSE {})

NoResponse == [kind |-> "none", stop_reason |-> "", content |-> <<>>]

----------------------------------------------------------------------------
(* Pure parts of generate_response and its callers *)

\* get_recent_context(max_messages): the last max_messages lines, parsed;
\* a line that does not parse is left out
RECURSIVE ParseLines(_)
ParseLines(lines) ==
    IF lines = <<>> THEN <<>>
    ELSE LET msg == JsonLoads(Head(lines))
         IN  IF msg.ok
             THEN <<[sender |-> msg.sender, message |-> msg.message]>>
                  \o ParseLines(Tail(lines))
             ELSE ParseLines(Tail(lines))

\* a reader that takes the oldest max_messages lines
GetRecentContext_oldest(all_lines, max_messages) ==
    ParseLines(IF Len(all_lines) > max_messages
               THEN SubSeq(all_lines, 1, max_messages)
               ELSE all_lines)

GetRecentContext(all_lines, max_messages) ==
    LET n == Len(all_lines)
        recent_lines == IF n > max_messages
                        THEN SubSeq(all_lines, n - max_messages + 1, n)
                        ELSE all_lines
    IN  ParseLines(recent_lines)

\* build_context_prompt
BuildContextPrompt(messages) ==
    IF messages = <<>> THEN <<"No chat history available.">>
    ELSE <<"Recent conversation:">>
         \o [i \in 1..Len(messages) |-> <<messages[i].sender, messages[i].message>>]

\* [block for block in response.content if block.type == "tool_use"]
RECURSIVE ToolUses(_)
ToolUses(content) ==
    IF content = <<>> THEN <<>>
    ELSE IF Head(content).type = "tool_use"
         THEN <<Head(content)>> \o ToolUses(Tail(content))
         ELSE ToolUses(Tail(content))

\* [block.text for block in response.content if hasattr(block, "text")]
RECURSIVE TextBlocks(_)
TextBlocks(content) ==
    IF content = <<>> THEN <<>>
    ELSE IF Head(content).type = "text"
         THEN <<Head(content).text>> \o TextBlocks(Tail(content))
         ELSE TextBlocks(Tail(content))

\* a join that keeps the first segment only
Join_first_only(texts) == texts[1]

\* " ".join(text_blocks)
RECURSIVE Join(_)
Join(texts) ==
    IF texts = <<>> THEN <<>>
    ELSE IF Len(texts) = 1 THEN texts[1]
    ELSE texts[1] \o <<" ">> \o Join(Tail(texts))

FallbackText == <<"I processed your request but couldn't generate a response.">>
PlaceholderText == <<"Response timeout - still processing, please wait...">>

\* the value generate_response returns for a response that ends the loop
FinalAnswer(content) ==
    LET text_blocks == TextBlocks(content)
    IN  [is_none |-> FALSE,
         text |-> IF text_blocks # <<>> THEN Join(text_blocks) ELSE FallbackText]

None == [is_none |-> TRUE, text |-> <<>>]

\* Python's truth value of what generate_response returned
Truthy(a) == ~a.is_none /\ a.text # <<>>

\* tool_descriptions.get(name, "Processing")
Describe(tool_name) ==
    IF tool_name \in HandledTools THEN "doing " \o tool_name ELSE "Processing"

\* the status message pushed before the tools of a round run
ThinkingMsg(tool_uses) ==
    IF Len(tool_uses) = 1
    THEN <<"thinking: ", Describe(tool_uses[1].name), "...">>
    ELSE <<"thinking: ", "Working on this...">>
         \o [i \in 1..Len(tool_uses) |-> Describe(tool_uses[i].name)]

\* a loop that stops after its first tool_use
MoreTools_first_only(idx, tool_uses) == FALSE

\* `for tool_use in tool_uses`: whether another tool_use follows the one at
\* tool_idx
MoreTools(idx, tool_uses) == idx < Len(tool_uses)

\* a loop that appends the results of a round without the turn that asked
\* for them
AppendTurns_results_only(conversation, content, results) ==
    Append(conversation, [role |-> "user", content |-> results])

\* the two conversation_messages.append of a round: the assistant's response,
\* then the tool results as a user turn
AppendTurns(conversation, content, results) ==
    conversation \o <<[role |-> "assistant", content |-> content],
                      [role |-> "user", content |-> results]>>

\* one entry of tool_results
ToolResult(tool_use, content) ==
    [type |-> "tool_result", tool_use_id |-> tool_use.id, content |-> content]

----------------------------------------------------------------------------
(* send_to_websocket: what one call does to the relay and what it returns.  *)
(* net = "ok": the relay took the record and answered 200; "lost": the      *)
(* request failed before the relay took it (returns False); "late": the     *)
(* relay took it but its answer was lost (returns False)                    *)

NetOutcomes == {"ok", "lost", "late"}

Push(kind, message, net) ==
    LET appended == net \in {"ok", "late"}
    IN  /\ chat_history' = IF appended
                           THEN SendMessageEndpoint(chat_history, AI_SENDER, message)
                           ELSE chat_history
        /\ changes' = (changes \/ appended)
        /\ chat_exists' = (chat_exists \/ appended)
        /\ pushes' = Append(pushes, [kind |-> kind, returned |-> (net = "ok"),
                                     appended |-> appended])

----------------------------------------------------------------------------
(* monitor_loop of active_ai_monitor.py *)

NoGeneration ==
    /\ recent_messages' = <<>>
    /\ conversation_messages' = <<>>
    /\ response' = NoResponse
    /\ tool_results' = <<>>
    /\ tool_idx' = 0
    /\ rounds' = 0
    /\ answer' = None
    /\ UNCHANGED expired

\* awatch reports a change although no line was added (a second event for one
\* write, a touch)
SpuriousChange ==
    /\ UNCHANGED <<side_vars, chat_exists, prepared_response>>
    /\ spurious < MaxSpurious
    /\ ~changes
    /\ changes' = TRUE
    /\ spurious' = spurious + 1
    /\ UNCHANGED <<chat_history, last_processed_line, last_trigger_line, pc, gen_vars,
                   err_source, pushes, outcome, had_failure, detections, fired, mcp_report,
                   mcp_reported>>

\* one iteration of `async for changes in awatch(...)`: check_for_trigger
MonitorCheck ==
    /\ UNCHANGED <<side_vars, chat_exists, prepared_response>>
    /\ pc = "watching"
    /\ changes
    /\ changes' = FALSE
    /\ LET r == CheckForTrigger(chat_history, last_processed_line)
       IN  /\ last_processed_line' = r.store
           /\ detections' = IF r.line = detections.count
                            THEN [detections EXCEPT
                                    !.results = Append(@, r.triggered)]
                            ELSE [count |-> r.line, results |-> <<r.triggered>>]
           /\ fired' = IF r.triggered THEN Append(fired, r.line) ELSE fired
           /\ IF r.triggered
              THEN /\ pc' = "context"
                   /\ outcome' = "running"
                   /\ pushes' = <<>>
                   /\ err_source' = "none"
              ELSE UNCHANGED <<pc, outcome, pushes, err_source>>
    /\ UNCHANGED <<chat_history, last_trigger_line, spurious, gen_vars, had_failure,
                   mcp_report, mcp_reported>>

\* an iteration whose exception leaves the loop
IterationExcept_leaves == "stopped"

\* where monitor_loop is after the `except Exception` of an iteration: it
\* prints the error and takes the next change ("stopped": the loop was left)
IterationExcept == "watching"

\* a loop that sends once more after a send
IterationEnds_sends_again == "deliver"

\* where monitor_loop is when an iteration ends without an exception
IterationEnds == "watching"

\* check_for_trigger raises while reading the file: caught by the iteration
MonitorCheckError ==
    /\ UNCHANGED <<side_vars, chat_exists, prepared_response>>
    /\ pc = "watching"
    /\ changes
    /\ changes' = FALSE
    /\ had_failure' = TRUE
    /\ pc' = IterationExcept
    /\ UNCHANGED <<chat_history, last_processed_line, last_trigger_line, spurious,
                   gen_vars, err_source, pushes, outcome, detections, fired,
                   mcp_report, mcp_reported>>

\* get_recent_context, then generate_response up to its first model call
MonitorContext ==
    /\ UNCHANGED <<side_vars, chat_exists, prepared_response>>
    /\ pc = "context"
    /\ recent_messages' = GetRecentContext(chat_history, MAX_MESSAGES)
    /\ conversation_messages' =
           <<[role |-> "user", content |-> BuildContextPrompt(recent_messages')]>>
    /\ pc' = "model"
    /\ expired' = FALSE
    /\ UNCHANGED <<chat_history, last_processed_line, last_trigger_line, changes,
                   spurious, response, tool_results, tool_idx, rounds, answer,
                   err_source, pushes, outcome, had_failure, detections, fired,
                   mcp_report, mcp_reported>>

\* get_recent_context raises while reading the file: caught by the iteration
MonitorContextError ==
    /\ UNCHANGED <<side_vars, chat_exists, prepared_response>>
    /\ pc = "context"
    /\ pc' = IterationExcept
    /\ outcome' = "failed"
    /\ had_failure' = TRUE
    /\ UNCHANGED <<chat_history, last_processed_line, last_trigger_line, changes,
                   spurious, gen_vars, err_source, pushes, detections, fired, mcp_report,
                   mcp_reported>>

\* monitor_loop after wait_for returned `a` (the model's last response being
\* `resp`): `if response:` sends it, else the failure is printed and the
\* iteration ends
AfterGenerate(a, resp) ==
    IF Truthy(a)
    THEN /\ pc' = "deliver"
         /\ answer' = a
         /\ response' = resp
         /\ UNCHANGED <<recent_messages, conversation_messages, tool_results,
                        tool_idx, rounds, expired, outcome, had_failure>>
    ELSE /\ pc' = IterationEnds
         /\ outcome' = "failed"
         /\ had_failure' = TRUE
         /\ NoGeneration

\* generate_response's `except Exception`: what it returns
GenerateExcept == None

\* RESPONSE_TIMEOUT passes while wait_for waits for generate_response
Expire ==
    /\ UNCHANGED <<side_vars, chat_exists, prepared_response>>
    /\ pc \in {"model", "status", "status_wait", "tools"}
    /\ ~expired
    /\ expired' = TRUE
    /\ UNCHANGED <<chat_history, last_processed_line, last_trigger_line, changes,
                   spurious, pc, recent_messages, conversation_messages, response,
                   tool_results, tool_idx, rounds, answer, err_source, pushes, outcome,
                   had_failure, detections, fired, mcp_report,
                   mcp_reported>>

\* wait_for cancels generate_response at the await it is suspended in and
\* raises TimeoutError into monitor_loop
Cancelled ==
    /\ pc' = "timeout"
    /\ UNCHANGED <<relay_vars, gen_vars, err_source, pushes, outcome, had_failure>>

\* client.messages.create: a synchronous call, the event loop does not run
\* while it lasts, so wait_for cannot cancel here
ModelCall(service) ==
    /\ UNCHANGED <<side_vars, chat_exists, prepared_response>>
    /\ pc = "model"
    /\ \E r \in ModelResponses(rounds, service) :
          IF r.kind = "raises"
          THEN /\ err_source' = "model"
               /\ AfterGenerate(GenerateExcept, response)
          ELSE /\ UNCHANGED err_source
               /\ IF r.stop_reason = "tool_use"
                  THEN /\ pc' = "status"
                       /\ response' = r
                       /\ UNCHANGED <<recent_messages, conversation_messages,
                                      tool_results, tool_idx, rounds, expired, answer,
                                      outcome, had_failure>>
                  ELSE AfterGenerate(FinalAnswer(r.content), r)
    /\ UNCHANGED <<chat_history, last_processed_line, last_trigger_line, changes,
                   spurious, pushes, detections, fired, mcp_report,
                   mcp_reported>>

\* await send_to_websocket("AI Assistant", thinking_msg): the request
SendStatus ==
    /\ UNCHANGED <<side_vars, prepared_response>>
    /\ pc = "status"
    /\ IF expired
       THEN Cancelled
       ELSE /\ \E net \in NetOutcomes :
                  Push("status", ThinkingMsg(ToolUses(response.content)), net)
            /\ pc' = "status_wait"
            /\ UNCHANGED <<gen_vars, err_source, outcome, had_failure>>
    /\ UNCHANGED <<last_processed_line, last_trigger_line, spurious, detections,
                   fired, mcp_report,
                   mcp_reported>>

\* ... and the return from that await
StatusReturns ==
    /\ UNCHANGED <<side_vars, prepared_response>>
    /\ pc = "status_wait"
    /\ IF expired
       THEN Cancelled
       ELSE /\ pc' = "tools"
            /\ tool_idx' = 1
            /\ tool_results' = <<>>
            /\ UNCHANGED <<relay_vars, recent_messages, conversation_messages,
                           response, rounds, expired, answer, err_source, pushes,
                           outcome, had_failure>>
    /\ UNCHANGED <<last_processed_line, last_trigger_line, spurious, detections,
                   fired, mcp_report,
                   mcp_reported>>

\* one pass of `for tool_use in tool_uses`; after the last one the two turns
\* are appended and the model is called again
ExecTool ==
    /\ UNCHANGED <<side_vars, prepared_response>>
    /\ pc = "tools"
    /\ LET tool_uses == ToolUses(response.content)
           tool_use == tool_uses[tool_idx]
           invoked == HandlerInvoked(tool_use.name, tool_use.input)
       IN  IF invoked /\ HandlerAwaits(tool_use.name) /\ expired
           THEN Cancelled
           ELSE \E handler \in (IF invoked THEN {"ok", "raises"} ELSE {"ok"}) :
                  LET res == ExecuteTool(tool_use.name, tool_use.input, handler)
                      results == Append(tool_results, ToolResult(tool_use, res.content))
                  IN  IF res.raised
                      THEN /\ err_source' = "tool"
                           /\ AfterGenerate(GenerateExcept, response)
                           /\ UNCHANGED <<relay_vars, pushes>>
                      ELSE /\ tool_results' = results
                           /\ tool_idx' = tool_idx + 1
                           /\ IF MoreTools(tool_idx, tool_uses)
                              THEN UNCHANGED <<pc, conversation_messages, rounds>>
                              ELSE /\ conversation_messages' =
                                        AppendTurns(conversation_messages,
                                                    response.content, results)
                                   /\ rounds' = rounds + 1
                                   /\ pc' = "model"
                           /\ UNCHANGED <<relay_vars, recent_messages, response, expired,
                                          answer, err_source, pushes, outcome,
                                          had_failure>>
    /\ UNCHANGED <<last_processed_line, last_trigger_line, spurious, detections,
                   fired, mcp_report,
                   mcp_reported>>

\* await send_to_websocket("AI Assistant", response), and the iteration ends
Deliver ==
    /\ UNCHANGED <<side_vars, prepared_response>>
    /\ pc = "deliver"
    /\ \E net \in NetOutcomes :
          /\ Push("answer", answer.text, net)
          /\ outcome' = IF net = "ok" THEN "answered" ELSE "undelivered"
          /\ had_failure' = (had_failure \/ net # "ok")
    /\ pc' = IterationEnds
    /\ NoGeneration
    /\ UNCHANGED <<last_processed_line, last_trigger_line, spurious, err_source,
                   detections, fired, mcp_report,
                   mcp_reported>>

\* `except asyncio.TimeoutError`: the placeholder is pushed, the iteration ends
TimeoutSend ==
    /\ UNCHANGED <<side_vars, prepared_response>>
    /\ pc = "timeout"
    /\ \E net \in NetOutcomes : Push("placeholder", PlaceholderText, net)
    /\ outcome' = "timed_out"
    /\ had_failure' = TRUE
    /\ pc' = IterationEnds
    /\ NoGeneration
    /\ UNCHANGED <<last_processed_line, last_trigger_line, spurious, err_source,
                   detections, fired, mcp_report,
                   mcp_reported>>

----------------------------------------------------------------------------
(* The MCP server's tools: chat_monitor_mcp.py *)

\* what a tool of the server returned: the tool, whether it reports a trigger
\* and the transcript position of the record it names, the count of new lines
\* or messages it gives, the messages it lists, the max_messages it was called
\* with, whether what it returned is an "Error: ..." string
NoReport ==
    [tool |-> "none", triggered |-> FALSE, line |-> 0, new_messages |-> 0,
     messages |-> <<>>, max_messages |-> 0, error |-> FALSE]

\* the index in new_lines of the first line that parses and holds the trigger
\* word, 0 when there is none (the `for line in new_lines` scan)
RECURSIVE FirstTrigger(_, _)
FirstTrigger(new_lines, k) ==
    IF k > Len(new_lines) THEN 0
    ELSE LET msg == JsonLoads(new_lines[k])
         IN  IF msg.ok /\ Contains(Lower(TRIGGER_WORD), Lower(msg.message))
             THEN k
             ELSE FirstTrigger(new_lines, k + 1)

\* check_for_trigger(trigger_word="@ai") of the MCP server: triggered, the
\* transcript position of the record reported, the count of new lines
McpCheckForTrigger(all_lines, last_trigger) ==
    LET new_lines == SubSeq(all_lines, last_trigger + 1, Len(all_lines))
        k == FirstTrigger(new_lines, 1)
    IN  IF new_lines = <<>>
        THEN [NoReport EXCEPT !.tool = "check_for_trigger"]
        ELSE [NoReport EXCEPT
                 !.tool = "check_for_trigger",
                 !.triggered = k > 0,
                 !.line = IF k > 0 THEN last_trigger + k ELSE 0,
                 !.new_messages = Len(new_lines)]

\* get_recent_messages(max_messages): the records after the offset, the last
\* max_messages of them at most
McpGetRecentMessages(all_lines, last_trigger, max_messages) ==
    LET relevant_lines == SubSeq(all_lines, last_trigger + 1, Len(all_lines))
        n == Len(relevant_lines)
        limited == IF n > max_messages
                   THEN SubSeq(relevant_lines, n - max_messages + 1, n)
                   ELSE relevant_lines
        messages == ParseLines(limited)
    IN  [NoReport EXCEPT
            !.tool = "get_recent_messages",
            !.new_messages = Len(messages),
            !.messages = messages,
            !.max_messages = max_messages]

\* the values of max_messages the server is called with
MaxMessagesInputs == {1, MAX_MESSAGES}

McpRecent ==
    /\ UNCHANGED <<side_vars, chat_exists, prepared_response>>
    /\ \E max_messages \in MaxMessagesInputs :
          mcp_report' = McpGetRecentMessages(chat_history, last_trigger_line,
                                             max_messages)
    /\ UNCHANGED <<chat_history, last_processed_line, last_trigger_line, changes,
                   spurious, pc, gen_vars, err_source, pushes, outcome, had_failure,
                   detections, fired, mcp_reported>>

McpCheck ==
    /\ UNCHANGED <<side_vars, chat_exists, prepared_response>>
    /\ mcp_report' = McpCheckForTrigger(chat_history, last_trigger_line)
    /\ LET key == <<mcp_report'.line, Len(chat_history)>>
       IN  mcp_reported' =
               IF mcp_report'.triggered
               THEN [once |-> mcp_reported.once \cup {key},
                     again |-> IF key \in mcp_reported.once
                               THEN mcp_reported.again \cup {key}
                               ELSE mcp_reported.again]
               ELSE mcp_reported
    /\ UNCHANGED <<chat_history, last_processed_line, last_trigger_line, changes,
                   spurious, pc, gen_vars, err_source, pushes, outcome, had_failure,
                   detections, fired>>

\* a server that stores the position before the current one
PreparedOffset_behind(current_line) ==
    IF current_line > 0 THEN current_line - 1 ELSE 0

\* set_last_trigger_line(current_line) of prepare_chat_response: what is stored
PreparedOffset(current_line) == current_line

\* prepared_response.json: absent, or the response with its timestamp (the
\* time is counted in transcript lines)
NoPrepared == [ready |-> FALSE, response |-> <<>>, timestamp |-> 0]

\* the response_text the server is called with
PreparedTexts == {<<"o", "k">>}

\* prepare_chat_response(response_text): without a transcript it returns
\* "Error: No chat history found."; else the response is saved and the offset
\* set to the current line count
PrepareChatResponse ==
    /\ UNCHANGED <<side_vars, chat_exists>>
    /\ IF ~chat_exists
       THEN /\ mcp_report' = [NoReport EXCEPT !.tool = "prepare_chat_response",
                                              !.error = TRUE]
            /\ UNCHANGED <<prepared_response, last_trigger_line>>
       ELSE \E response_text \in PreparedTexts :
              /\ prepared_response' = [ready |-> TRUE, response |-> response_text,
                                       timestamp |-> Len(chat_history)]
              /\ last_trigger_line' = PreparedOffset(Len(chat_history))
              /\ mcp_report' = [NoReport EXCEPT !.tool = "prepare_chat_response"]
    /\ UNCHANGED <<chat_history, last_processed_line, changes, spurious, pc, gen_vars,
                   err_source, pushes, outcome, had_failure, detections, fired,
                   mcp_reported>>

----------------------------------------------------------------------------
(* Several detector processes on one offset store: each runs                *)
(* check_for_trigger of active_ai_monitor.py; the operating system may run  *)
(* another process between two file operations of one                       *)

Instances == {1, 2}

IdleDetector == [pc |-> "idle", all_lines |-> <<>>, last_processed |-> 0]

\* a store whose value is not got back
GetLastProcessedLine_forgets(stored) == 0

\* get_last_processed_line(): the integer in .last_processed_line
GetLastProcessedLine(stored) == stored

\* `with open(CHAT_HISTORY) as f: all_lines = f.readlines()`
DetectorReadsLines(i) ==
    /\ detectors[i].pc = "idle"
    /\ detectors' = [detectors EXCEPT ![i] = [pc |-> "lines",
                                              all_lines |-> chat_history,
                                              last_processed |-> 0]]
    /\ UNCHANGED <<chat_history, chat_exists, last_processed_line, monitor_vars,
                   mcp_vars, det_fired, reader_call, server_vars>>

\* last_processed = get_last_processed_line()
DetectorReadsOffset(i) ==
    /\ detectors[i].pc = "lines"
    /\ detectors' = [detectors EXCEPT
                        ![i].pc = "offset",
                        ![i].last_processed = GetLastProcessedLine(last_processed_line)]
    /\ UNCHANGED <<chat_history, chat_exists, last_processed_line, monitor_vars,
                   mcp_vars, det_fired, reader_call, server_vars>>

\* the parse, the comparison and, when it fires, set_last_processed_line;
\* stale: the store no longer held the value this call had read
DetectorDecides(i) ==
    /\ detectors[i].pc = "offset"
    /\ LET r == CheckForTrigger(detectors[i].all_lines, detectors[i].last_processed)
       IN  /\ last_processed_line' = IF r.triggered THEN r.store
                                     ELSE last_processed_line
           /\ det_fired' = IF r.triggered
                           THEN Append(det_fired,
                                       [inst |-> i, line |-> r.line,
                                        stale |-> last_processed_line
                                                  # detectors[i].last_processed])
                           ELSE det_fired
    /\ detectors' = [detectors EXCEPT ![i] = IdleDetector]
    /\ UNCHANGED <<chat_history, chat_exists, monitor_vars, mcp_vars, reader_call,
                   server_vars>>

----------------------------------------------------------------------------
(* The readers of the transcript called on any transcript, lines that are   *)
(* no record included                                                        *)

\* lines that are no record: a record cut off before its end, an empty line,
\* and JSON values that are no object
CutOffLine == <<"{", "Dana", "h">>
BlankLine == <<>>
JsonScalars == {"42", "null"}
ForeignLines == {CutOffLine, BlankLine, <<"42">>, <<"null">>}

\* json.loads(line.strip()) returns a value without .get (an int, None):
\* msg.get raises AttributeError, which `except json.JSONDecodeError` lets pass
IsNotADict(line) == Len(line) = 1 /\ line[1] \in JsonScalars

\* the values of max_messages the readers are called with
ContextSizes == {1, 2, MAX_MESSAGES}

NoCall ==
    [fn |-> "none", exists |-> TRUE, all_lines |-> <<>>, max_messages |-> 0,
     offset |-> 0, raised |-> FALSE, triggered |-> FALSE, messages |-> <<>>]

\* all_lines[-max_messages:] if len(all_lines) > max_messages else all_lines
RecentLines(all_lines, max_messages) ==
    IF Len(all_lines) > max_messages
    THEN SubSeq(all_lines, Len(all_lines) - max_messages + 1, Len(all_lines))
    ELSE all_lines

\* get_recent_context(max_messages) as a call: [] when the file is absent; an
\* exception when a line of the window gives a value without .get
GetRecentContextCall(exists, all_lines, max_messages) ==
    IF ~exists
    THEN [NoCall EXCEPT !.fn = "get_recent_context", !.exists = FALSE,
                        !.max_messages = max_messages]
    ELSE LET recent_lines == RecentLines(all_lines, max_messages)
             raised == \E k \in 1..Len(recent_lines) : IsNotADict(recent_lines[k])
         IN  [NoCall EXCEPT
                 !.fn = "get_recent_context",
                 !.all_lines = all_lines,
                 !.max_messages = max_messages,
                 !.raised = raised,
                 !.messages = IF raised THEN <<>>
                              ELSE GetRecentContext(all_lines, max_messages)]

\* check_for_trigger of active_ai_monitor.py as a call: (False, 0) when the
\* file is absent; an exception when the newest line gives a value without .get
CheckForTriggerCall(exists, all_lines, last_processed) ==
    IF ~exists
    THEN [NoCall EXCEPT !.fn = "check_for_trigger", !.exists = FALSE]
    ELSE LET raised == all_lines # <<>> /\ IsNotADict(all_lines[Len(all_lines)])
         IN  [NoCall EXCEPT
                 !.fn = "check_for_trigger",
                 !.all_lines = all_lines,
                 !.offset = last_processed,
                 !.raised = raised,
                 !.triggered = ~raised
                               /\ CheckForTrigger(all_lines, last_processed).triggered]

\* check_for_trigger of chat_monitor_mcp.py as a call: the scan stops at the
\* first trigger; an exception when it meets a value without .get before that
McpCheckForTriggerCall(exists, all_lines, last_trigger) ==
    IF ~exists
    THEN [NoCall EXCEPT !.fn = "mcp_check_for_trigger", !.exists = FALSE]
    ELSE LET new_lines == SubSeq(all_lines, last_trigger + 1, Len(all_lines))
             k == FirstTrigger(new_lines, 1)
             scanned == IF k > 0 THEN k - 1 ELSE Len(new_lines)
             raised == \E j \in 1..scanned : IsNotADict(new_lines[j])
         IN  [NoCall EXCEPT
                 !.fn = "mcp_check_for_trigger",
                 !.all_lines = all_lines,
                 !.offset = last_trigger,
                 !.raised = raised,
                 !.triggered = ~raised
                               /\ McpCheckForTrigger(all_lines, last_trigger).triggered]

\* a line that is no record gets into the file (another writer, an editor, a
\* write cut short)
ForeignAppend(line) ==
    /\ Len(chat_history) < MaxLen
    /\ chat_history' = Append(chat_history, line)
    /\ chat_exists' = TRUE
    /\ changes' = TRUE
    /\ UNCHANGED <<last_processed_line, last_trigger_line, spurious, pc, gen_vars,
                   err_source, pushes, outcome, had_failure, detections, fired,
                   mcp_report, mcp_reported, prepared_response, side_vars>>

\* monitor_loop at its start: `if not CHAT_HISTORY.exists(): CHAT_HISTORY.touch()`
TouchTranscript ==
    /\ ~chat_exists
    /\ chat_exists' = TRUE
    /\ UNCHANGED <<chat_history, last_processed_line, monitor_vars, mcp_vars,
                   side_vars>>

ContextCall(max_messages) ==
    /\ reader_call' = GetRecentContextCall(chat_exists, chat_history, max_messages)
    /\ UNCHANGED <<chat_history, chat_exists, last_processed_line, monitor_vars,
                   mcp_vars, detector_vars, server_vars>>

DetectorCall ==
    /\ reader_call' = CheckForTriggerCall(chat_exists, chat_history, last_processed_line)
    /\ last_processed_line' =
           IF reader_call'.triggered
           THEN CheckForTrigger(chat_history, last_processed_line).store
           ELSE last_processed_line
    /\ UNCHANGED <<chat_history, chat_exists, monitor_vars, mcp_vars, detector_vars,
                   server_vars>>

McpScanCall ==
    /\ reader_call' = McpCheckForTriggerCall(chat_exists, chat_history,
                                             last_trigger_line)
    /\ UNCHANGED <<chat_history, chat_exists, last_processed_line, monitor_vars,
                   mcp_vars, detector_vars, server_vars>>

----------------------------------------------------------------------------
(* The relay's connections: each websocket_endpoint of main.py is a          *)
(* coroutine of one event loop; where one awaits, another may run            *)

\* manager.active_connections, in the order the participants connected
active_connections == <<1, 2>>
Connections == {1, 2}

\* the client_name of each connection
ClientName(c) == IF c = 1 THEN "Dana" ELSE "Eli"

\* what a participant types: the texts hold no food keyword, so
\* process_food_profile_update leaves the profiles alone
TypedTexts == {PlainText, TriggerText}

\* a handler at `data = await websocket.receive_text()`
Receiving == [pc |-> "receive", message_json |-> <<>>, line |-> 0, next |-> 0]

\* websocket_endpoint from a received text up to the first await of
\* broadcast_to_all: the record is built and appended to the transcript;
\* line is the position it got (history)
RelayReceive(c, data) ==
    /\ handlers[c].pc = "receive"
    /\ Len(chat_history) < MaxLen
    /\ LET message_json == JsonDumps([sender |-> ClientName(c), message |-> data])
       IN  /\ chat_history' = WriteLine(chat_history, message_json)
           /\ handlers' = [handlers EXCEPT
                              ![c] = [pc |-> "broadcast",
                                      message_json |-> message_json,
                                      line |-> Len(chat_history'),
                                      next |-> 1]]
    /\ chat_exists' = TRUE
    /\ changes' = TRUE
    /\ UNCHANGED <<last_processed_line, spurious, pc, gen_vars, err_source, pushes,
                   outcome, had_failure, detections, fired, mcp_vars, detector_vars,
                   reader_call, inboxes, profile_vars>>

\* broadcast_to_all, one turn of its loop: `await connection.send_text(message)`
\* for the next connection of the list; after the last one the handler is
\* back at receive_text
RelayBroadcast(c) ==
    /\ handlers[c].pc = "broadcast"
    /\ LET connection == active_connections[handlers[c].next]
       IN  inboxes' = [inboxes EXCEPT
                          ![connection] =
                              Append(@, [line |-> handlers[c].line,
                                         message_json |-> handlers[c].message_json])]
    /\ handlers' = [handlers EXCEPT
                       ![c] = IF handlers[c].next = Len(active_connections)
                              THEN Receiving
                              ELSE [@ EXCEPT !.next = @ + 1]]
    /\ UNCHANGED <<chat_history, chat_exists, last_processed_line, monitor_vars,
                   mcp_vars, detector_vars, reader_call, profile_vars>>

----------------------------------------------------------------------------
(* The food profiles: user_food_profiles.json, written by main.py and by     *)
(* sentiment_server.py                                                       *)

\* the file before any update: `db = {}`
NoProfiles == [user \in {} |-> <<>>]

all_categories == <<"loved", "liked", "neutral", "dislike", "hated">>
CategoryNames == {all_categories[k] : k \in DOMAIN all_categories}

\* the users whose foods are updated, and the categories the updates give
FoodUsers == {"Dana"}
UpdateCategories == {"loved", "hated"}

\* a food as main.py finds it (a member of FOOD_KEYWORDS), and as the model
\* of sentiment_server.py may name it
KeywordFoods == {"tea"}
DetectedFoods == {"tea", "Tea"}

\* str.lower() on the food names of the model
StrLower(food) == IF food = "Tea" THEN "tea" ELSE food

\* the foods, one name for each whatever its case
FoodNames == {StrLower(food) : food \in KeywordFoods \cup DetectedFoods}

\* `x in list`
InList(x, list) == \E k \in 1..Len(list) : list[k] = x

\* list.remove(x): the list without the first x
RemoveFirst(list, x) ==
    LET k == CHOOSE k \in 1..Len(list) :
                 list[k] = x /\ \A j \in 1..(k - 1) : list[j] # x
    IN  SubSeq(list, 1, k - 1) \o SubSeq(list, k + 1, Len(list))

\* [f.lower() for f in list]
LowerAll(list) == [k \in 1..Len(list) |-> StrLower(list[k])]

\* [f for f in list if f.lower() != food.lower()]
WithoutFood(list, food) ==
    SelectSeq(list, LAMBDA f : StrLower(f) # StrLower(food))

\* `if user not in db: db[user] = {cat: [] for cat in all_categories}`
WithUser(profiles, user) ==
    IF user \in DOMAIN profiles
    THEN profiles
    ELSE [u \in DOMAIN profiles \cup {user} |->
             IF u = user THEN [cat \in CategoryNames |-> <<>>] ELSE profiles[u]]

\* update_food_profile of main.py on the loaded profiles
UpdateFoodProfile(profiles, user, food, category) ==
    LET with == WithUser(profiles, user)
    IN  [with EXCEPT ![user] =
             [cat \in CategoryNames |->
                 IF cat = category
                 THEN IF InList(food, with[user][cat])
                      THEN with[user][cat]
                      ELSE Append(with[user][cat], food)
                 ELSE IF InList(food, with[user][cat])
                      THEN RemoveFirst(with[user][cat], food)
                      ELSE with[user][cat]]]

\* update_food_preference of sentiment_server.py on the loaded profiles
UpdateFoodPreference(profiles, user, food, category) ==
    LET with == WithUser(profiles, user)
    IN  [with EXCEPT ![user] =
             [cat \in CategoryNames |->
                 IF cat = category
                 THEN IF InList(StrLower(food), LowerAll(with[user][cat]))
                      THEN with[user][cat]
                      ELSE Append(with[user][cat], food)
                 ELSE WithoutFood(with[user][cat], food)]]

\* the relay (main.py) and the sentiment server are two processes
Writers == {"main", "sentiment"}
IdleWriter ==
    [pc |-> "idle", profiles |-> NoProfiles, user |-> "", food |-> "",
     category |-> ""]

\* what a writer may be asked to record
UpdateInputs(w) ==
    FoodUsers \X (IF w = "main" THEN KeywordFoods ELSE DetectedFoods)
              \X UpdateCategories

\* `json.load(f)` of update_food_profile, load_user_profiles() of
\* update_food_preference
LoadProfiles(w, user, food, category) ==
    /\ writers[w].pc = "idle"
    /\ writers' = [writers EXCEPT ![w] = [pc |-> "loaded", profiles |-> db,
                                          user |-> user, food |-> food,
                                          category |-> category]]
    /\ UNCHANGED <<chat_history, chat_exists, last_processed_line, monitor_vars,
                   mcp_vars, detector_vars, reader_call, handlers, inboxes, db,
                   food_updates>>

\* the rest of the update: the lists are changed and the file is written
SaveProfiles(w) ==
    /\ writers[w].pc = "loaded"
    /\ LET u == writers[w]
       IN  /\ db' = IF w = "main"
                    THEN UpdateFoodProfile(u.profiles, u.user, u.food, u.category)
                    ELSE UpdateFoodPreference(u.profiles, u.user, u.food,
                                              u.category)
           /\ food_updates' = [food_updates EXCEPT
                                  ![<<u.user, StrLower(u.food)>>] = u.category]
    /\ writers' = [writers EXCEPT ![w] = IdleWriter]
    /\ UNCHANGED <<chat_history, chat_exists, last_processed_line, monitor_vars,
                   mcp_vars, detector_vars, reader_call, handlers, inboxes>>

----------------------------------------------------------------------------
(* Specifications *)

\* the parts beside the responder before they have done anything
NoCallsInit ==
    /\ prepared_response = NoPrepared
    /\ detectors = [i \in Instances |-> IdleDetector]
    /\ det_fired = <<>>
    /\ reader_call = NoCall
    /\ handlers = [c \in Connections |-> Receiving]
    /\ inboxes = [c \in Connections |-> <<>>]
    /\ db = NoProfiles
    /\ writers = [w \in Writers |-> IdleWriter]
    /\ food_updates = [key \in FoodUsers \X FoodNames |-> "none"]

\* the transcript exists: monitor_loop creates it when it starts
SideInit ==
    /\ chat_exists = TRUE
    /\ NoCallsInit

\* the responder at its watcher, nothing written yet
IdleInit ==
    /\ chat_history = <<>>
    /\ last_processed_line = 0
    /\ last_trigger_line = 0
    /\ changes = FALSE
    /\ spurious = 0
    /\ pc = "watching"
    /\ recent_messages = <<>>
    /\ conversation_messages = <<>>
    /\ response = NoResponse
    /\ tool_results = <<>>
    /\ tool_idx = 0
    /\ rounds = 0
    /\ expired = FALSE
    /\ answer = None
    /\ err_source = "none"
    /\ pushes = <<>>
    /\ outcome = "none"
    /\ had_failure = FALSE
    /\ detections = [count |-> 0, results |-> <<>>]
    /\ fired = <<>>
    /\ mcp_report = NoReport
    /\ mcp_reported = [once |-> {}, again |-> {}]

Init == IdleInit /\ SideInit

\* no process has created the transcript yet
InitAbsent ==
    /\ IdleInit
    /\ chat_exists = FALSE
    /\ NoCallsInit

Send == \E input \in UserInputs : UserSend(input[1], input[2])

\* the steps of the responder process
Monitor(service) ==
    \/ MonitorCheck
    \/ MonitorCheckError
    \/ MonitorContext
    \/ MonitorContextError
    \/ ModelCall(service)
    \/ SendStatus
    \/ StatusReturns
    \/ ExecTool
    \/ Deliver
    \/ TimeoutSend

\* the relay, the responder and the clock
Next ==
    \/ Send
    \/ SpuriousChange
    \/ Monitor(MonitorService)
    \/ Expire

Spec == Init /\ [][Next]_vars

\* the responder process keeps running: its event loop takes the next step,
\* and every call it waits for returns or fails (the clients' own timeouts)
FairSpec == Spec /\ WF_vars(Monitor(MonitorService))

\* generate_response alone: one participant has sent the trigger, the detector
\* has fired on it, and nobody else writes
InitLoop ==
    /\ chat_history = <<JsonDumps([sender |-> "Dana", message |-> TriggerText])>>
    /\ last_processed_line = 1
    /\ last_trigger_line = 0
    /\ changes = FALSE
    /\ spurious = 0
    /\ pc = "context"
    /\ recent_messages = <<>>
    /\ conversation_messages = <<>>
    /\ response = NoResponse
    /\ tool_results = <<>>
    /\ tool_idx = 0
    /\ rounds = 0
    /\ expired = FALSE
    /\ answer = None
    /\ err_source = "none"
    /\ pushes = <<>>
    /\ outcome = "running"
    /\ had_failure = FALSE
    /\ detections = [count |-> 1, results |-> <<TRUE>>]
    /\ fired = <<1>>
    /\ mcp_report = NoReport
    /\ mcp_reported = [once |-> {}, again |-> {}]
    /\ SideInit

NextLoop ==
    \/ Monitor(LoopService)
    \/ Expire

LoopSpec == InitLoop /\ [][NextLoop]_vars

\* the MCP server's detector beside the relay
NextMcp ==
    \/ Send
    \/ McpCheck
    \/ McpRecent
    \/ PrepareChatResponse

McpSpec == Init /\ [][NextMcp]_vars

\* the relay, the responder and the MCP server's writer of its offset: both
\* offset stores beside one transcript
NextStores ==
    \/ Next
    \/ PrepareChatResponse

StoresSpec == Init /\ [][NextStores]_vars

\* the relay with every kind of text, beside the readers of the transcript
RelaySend == \E input \in RelayInputs : UserSend(input[1], input[2])

NextRelay ==
    \/ RelaySend
    \/ McpCheck
    \/ McpRecent
    \/ PrepareChatResponse

RelaySpec == Init /\ [][NextRelay]_vars

\* the relay and two detector processes that share .last_processed_line
NextDetectors ==
    \/ Send
    \/ \E i \in Instances : DetectorReadsLines(i)
    \/ \E i \in Instances : DetectorReadsOffset(i)
    \/ \E i \in Instances : DetectorDecides(i)

DetectorsSpec == Init /\ [][NextDetectors]_vars

\* the readers of the transcript beside its writers, from before the file
\* exists
NextReaders ==
    \/ RelaySend
    \/ \E line \in ForeignLines : ForeignAppend(line)
    \/ \E max_messages \in ContextSizes : ContextCall(max_messages)
    \/ DetectorCall
    \/ McpScanCall

ReadersSpec == InitAbsent /\ [][NextReaders]_vars

\* the MCP server's tools beside the relay, from before the transcript exists
NextMcpFiles ==
    \/ TouchTranscript
    \/ NextMcp

McpFilesSpec == InitAbsent /\ [][NextMcpFiles]_vars

\* the relay with two participants connected, both typing
NextBroadcast ==
    \/ \E c \in Connections : \E data \in TypedTexts : RelayReceive(c, data)
    \/ \E c \in Connections : RelayBroadcast(c)

BroadcastSpec == Init /\ [][NextBroadcast]_vars

\* the two writers of the food profiles
NextFood ==
    \/ \E w \in Writers : \E input \in UpdateInputs(w) :
          LoadProfiles(w, input[1], input[2], input[3])
    \/ \E w \in Writers : SaveProfiles(w)

FoodSpec == Init /\ [][NextFood]_vars

----------------------------------------------------------------------------
(* Claims *)

IsUserTrigger(line) ==
    LET msg == JsonLoads(line)
    IN  msg.ok /\ msg.sender # AI_SENDER /\ Contains(<<"@", "a", "i">>, Lower(msg.message))

IsOwnLine(line) == JsonLoads(line).sender = AI_SENDER

\* the tool_use blocks the results of the current round belong to
RoundToolUses == ToolUses(response.content)

\* C1: with one detector, a transcript position (a line count) makes
\* check_for_trigger return triggered=True at most once, whatever the appends
\* and calls.
C1_PositionFiresAtMostOnce ==
    \A i, j \in 1..Len(fired) : fired[i] = fired[j] => i = j

\* a position has fired and check_for_trigger was called again at it
C1_Witness ==
    /\ fired # <<>>
    /\ detections.count = fired[Len(fired)]
    /\ Len(detections.results) >= 2

\* C2: a record whose sender is the responder never makes a detector report a
\* trigger, also when its text holds the trigger word: neither the active
\* monitor's detector nor the MCP server's scanning one.
C2_OwnRecordNeverTriggers ==
    /\ \A i \in 1..Len(fired) : ~IsOwnLine(chat_history[fired[i]])
    /\ (mcp_report.tool = "check_for_trigger" /\ mcp_report.triggered)
           => ~IsOwnLine(chat_history[mcp_report.line])

\* C3: a trigger record of another sender, appended once and followed by no
\* append: of the check_for_trigger calls that follow, the first fires and
\* every later one does not.
C3_FirstCallFiresOnly ==
    (/\ detections.count >= 1
     /\ IsUserTrigger(chat_history[detections.count]))
    => /\ detections.results[1]
       /\ \A k \in 2..Len(detections.results) : ~detections.results[k]

\* the calls at a trigger record's position number two or more
C3_Witness ==
    /\ detections.count >= 1
    /\ IsUserTrigger(chat_history[detections.count])
    /\ Len(detections.results) >= 2

\* C4: with a model that always asks for a tool, the loop of generate_response
\* ends by itself within an iteration cap: a run never completes more tool
\* rounds than the cap.
C4_LoopStopsAtCap == rounds <= IterationCap

\* C5: when the model is called again, the tool-results turn just appended
\* holds exactly one tool_result per tool_use block of the assistant turn
\* before it, with the same ids in the same order.
C5_ResultsMatchToolUses ==
    (pc = "model" /\ rounds >= 1) =>
        LET n == Len(conversation_messages)
            assistant == conversation_messages[n - 1]
            results == conversation_messages[n]
            tool_uses == ToolUses(assistant.content)
        IN  /\ n = 1 + 2 * rounds
            /\ assistant.role = "assistant"
            /\ results.role = "user"
            /\ Len(results.content) = Len(tool_uses)
            /\ \A k \in 1..Len(tool_uses) :
                  /\ results.content[k].type = "tool_result"
                  /\ results.content[k].tool_use_id = tool_uses[k].id

\* the model is called again after a turn with several tool_use blocks
C5_Witness ==
    /\ pc = "model"
    /\ rounds >= 1
    /\ Len(ToolUses(conversation_messages[Len(conversation_messages) - 1].content)) >= 2

\* names execute_tool has no branch for (it compares case-sensitively), and
\* argument dictionaries by their keys
UnknownNames == {"bogus_tool", "", "Geocode_Address", "get_current_weather"}
ArgumentKeys == {"people", "address", "user"}

\* C6: execute_tool with a name it has no branch for returns
\* "Unknown tool: <name>" and raises nothing, whatever the name and the
\* arguments; so it does for the unknown names the model asks for in a run.
C6_UnknownToolIsAString ==
    /\ \A tool_name \in UnknownNames, tool_input \in SUBSET ArgumentKeys,
          handler \in {"ok", "raises"} :
            ExecuteTool(tool_name, tool_input, handler) =
                [raised |-> FALSE, content |-> <<"Unknown tool: ", tool_name>>]
    /\ err_source # "tool"
    /\ pc \in {"tools", "model"} =>
          \A k \in 1..Len(tool_results) :
              RoundToolUses[k].name \notin HandledTools =>
                  tool_results[k].content = <<"Unknown tool: ", RoundToolUses[k].name>>

\* an unknown tool has been dispatched and its result collected
C6_Witness ==
    /\ pc = "tools"
    /\ \E k \in 1..Len(tool_results) : RoundToolUses[k].name \notin HandledTools

\* a call of this round that failed: a required argument missing, or the
\* handler raised
FailedCall(k) ==
    /\ RoundToolUses[k].name \in HandledTools
    /\ tool_results[k].content[1] = "Error executing "

\* C7: a failing tool call gets an error string of its own, the other calls of
\* the turn are still executed and get their results, and the loop goes on to
\* the next model call: no tool failure ends the run.
C7_FailureIsPerCall ==
    /\ err_source # "tool"
    /\ pc \in {"tools", "model"} =>
          \A k \in 1..Len(tool_results) :
              /\ tool_results[k].tool_use_id = RoundToolUses[k].id
              /\ ~HandlerInvoked(RoundToolUses[k].name, RoundToolUses[k].input)
                 /\ RoundToolUses[k].name \in HandledTools
                 => tool_results[k].content =
                        <<"Error executing ", RoundToolUses[k].name, ": ", "KeyError">>
              /\ tool_results[k].content[1] \in
                     {"Error executing ", "Unknown tool: ", "result of "}
    /\ (pc = "tools" /\ tool_results # <<>>) => Len(tool_results) = tool_idx - 1
    /\ (pc = "model" /\ rounds >= 1) => Len(tool_results) = Len(RoundToolUses)

\* the model is called again after a turn in which one call failed and a
\* later one succeeded
C7_Witness ==
    /\ pc = "model"
    /\ rounds >= 1
    /\ \E k, j \in 1..Len(tool_results) :
          /\ k < j
          /\ FailedCall(k)
          /\ tool_results[j].content[1] = "result of "

\* C8: when RESPONSE_TIMEOUT expires before the loop has its final answer, the
\* run is abandoned: the cycle ends timed out and the run's real answer is
\* neither about to be pushed nor pushed, wherever the time went.
C8_ExpiryAbandonsTheRun ==
    expired =>
        /\ pc # "deliver"
        /\ outcome \in {"running", "timed_out"}
        /\ \A k \in 1..Len(pushes) : pushes[k].kind # "answer"

\* C9: a model call or tool call that fails with another error than a timeout
\* ends the run failed, and an apology is pushed to the participants as the
\* cycle's visible result.
C9_FailurePushesApology ==
    (outcome = "failed" /\ err_source \in {"model", "tool"}) =>
        /\ pushes # <<>>
        /\ pushes[Len(pushes)].kind = "apology"

\* a trigger record is the newest line and its change has not been looked at
FreshTrigger(p) ==
    /\ had_failure
    /\ changes
    /\ Len(chat_history) = p
    /\ detections.count < p
    /\ IsUserTrigger(chat_history[p])

\* the detector has fired on it and the cycle has ended in an answer or in a
\* failure of its own, or the record is no longer the newest line, or the
\* check on it failed
Settled(p) ==
    \/ /\ \E i \in 1..Len(fired) : fired[i] = p
       /\ pc = "watching"
    \/ Len(chat_history) > p
    \/ /\ ~changes
       /\ detections.count < p
       /\ pc = "watching"

\* C10: no failure of a cycle (check, context, model, timeout, delivery) ends
\* monitor_loop: it is back at the watcher afterwards, and a trigger record
\* appended later is still looked at and its cycle run to its end.
C10_MonitorSurvives ==
    /\ [](had_failure => <>(pc = "watching"))
    /\ \A p \in 1..MaxLen : [](FreshTrigger(p) => <>Settled(p))

\* after a cycle that put nothing into the transcript, the trigger record
\* right behind its own has fired and been answered
C10_Witness ==
    /\ had_failure
    /\ outcome = "answered"
    /\ Len(fired) >= 2
    /\ fired[Len(fired)] = fired[Len(fired) - 1] + 1

\* the pushes of the current cycle the relay took: the messages that reached
\* the participants
PushesTaken == {k \in 1..Len(pushes) : pushes[k].appended}

\* C11: between the firing of a trigger position and the end of its cycle the
\* responder pushes at most one message to the participants, status messages,
\* final answer and timeout placeholder all counted.
C11_OnePushPerCycle == Cardinality(PushesTaken) <= 1

\* the text a push of the given kind carries, from the state it is made in
PushedText(kind) ==
    CASE kind = "status" -> ThinkingMsg(ToolUses(response.content))
      [] kind = "answer" -> answer.text
      [] OTHER -> PlaceholderText

\* a step in which send_to_websocket returned True
DeliveredStep ==
    /\ Len(pushes') = Len(pushes) + 1
    /\ pushes'[Len(pushes')].returned

\* C12: every response the responder delivers is appended to the transcript
\* as one new record with the responder as sender and the delivered text: the
\* transcript grows by exactly that record, and the context window read
\* afterwards holds it.
C12_DeliveredIsAppended ==
    [][DeliveredStep =>
          LET record == [sender |-> AI_SENDER,
                         message |-> PushedText(pushes'[Len(pushes')].kind)]
              window == GetRecentContext(chat_history', MAX_MESSAGES)
          IN  /\ chat_history' = Append(chat_history, JsonDumps(record))
              /\ window # <<>>
              /\ window[Len(window)] = record]_vars

\* an answer was delivered and its record is the newest line of the transcript
C12_Witness ==
    /\ outcome = "answered"
    /\ pushes # <<>>
    /\ pushes[Len(pushes)].kind = "answer"
    /\ pushes[Len(pushes)].returned
    /\ chat_history # <<>>
    /\ IsOwnLine(chat_history[Len(chat_history)])

\* the segments one after another with nothing between them
RECURSIVE Concatenated(_)
Concatenated(texts) ==
    IF texts = <<>> THEN <<>>
    ELSE Concatenated(SubSeq(texts, 1, Len(texts) - 1)) \o texts[Len(texts)]

\* the segments one after another with one space between neighbours
RECURSIVE SpaceSeparated(_)
SpaceSeparated(texts) ==
    IF Len(texts) <= 1 THEN Concatenated(texts)
    ELSE SpaceSeparated(SubSeq(texts, 1, Len(texts) - 1))
         \o <<" ">> \o texts[Len(texts)]

\* a run whose first model response asked for no tool has made no tool call,
\* no status push and no second model call
NoToolRun ==
    rounds = 0 =>
        /\ tool_results = <<>>
        /\ tool_idx = 0
        /\ \A k \in 1..Len(pushes) : pushes[k].kind # "status"
        /\ Len(conversation_messages) = 1

\* C13 as stated: when the first response asks for no tool there is no tool
\* call and no second model call, and the answer returned is the concatenation,
\* in order, of the text segments of the final response.
C13_AnswerIsConcatenation ==
    pc = "deliver" =>
        /\ NoToolRun
        /\ answer.text = Concatenated(TextBlocks(response.content))

\* C13 amended: ... the answer returned is the text segments of the final
\* response in order with a single space between neighbours (one segment:
\* that text unchanged), and the fixed fallback sentence when the final
\* response has no text segment.
C13_AnswerIsSpaceJoined ==
    pc = "deliver" =>
        /\ NoToolRun
        /\ answer.text = IF TextBlocks(response.content) = <<>>
                         THEN <<"I processed your request but couldn't generate a response.">>
                         ELSE SpaceSeparated(TextBlocks(response.content))
        /\ Len(TextBlocks(response.content)) = 1
               => answer.text = response.content[1].text

\* a final response of two text segments was returned by a run without tools
C13_Witness ==
    /\ pc = "deliver"
    /\ rounds = 0
    /\ Len(TextBlocks(response.content)) = 2

\* the whole transcript as its readers get it: the {sender, message} pairs
ReadAll(history) == GetRecentContext(history, MAX_MESSAGES)

\* C14: appending a record through the relay and reading the whole transcript
\* gives the pairs read before followed by exactly the appended pair, for
\* every transcript reached and every record sent; and no step changes,
\* reorders or removes a line that is there: a step leaves the transcript as
\* it is or adds one line behind the others.
C14_AppendThenReadRoundTrip ==
    /\ [](\A input \in RelayInputs :
            LET rec == [sender |-> input[1], message |-> input[2]]
            IN  ReadAll(WriteLine(chat_history, JsonDumps(rec)))
                    = Append(ReadAll(chat_history), rec))
    /\ [][\/ chat_history' = chat_history
          \/ /\ Len(chat_history') = Len(chat_history) + 1
             /\ SubSeq(chat_history', 1, Len(chat_history)) = chat_history
             /\ Len(ReadAll(chat_history')) = Len(ReadAll(chat_history)) + 1]_vars

\* a text with a quote and a line break was appended behind another record
\* and is read back as sent
C14_Witness ==
    /\ Len(chat_history) >= 2
    /\ Len(ReadAll(chat_history)) = Len(chat_history)
    /\ ReadAll(chat_history)[Len(chat_history)] =
           [sender |-> "Dana", message |-> <<"\"", "\n">>]

\* C15: in every reachable state each persisted offset, .last_processed_line
\* and .last_trigger_line, is at most the number of lines of the transcript.
C15_OffsetsWithinTranscript ==
    /\ last_processed_line <= Len(chat_history)
    /\ last_trigger_line <= Len(chat_history)

\* both stores have been written, and the transcript has grown since
C15_Witness ==
    /\ last_processed_line >= 1
    /\ last_trigger_line >= 1
    /\ Len(chat_history) > last_processed_line
    /\ Len(chat_history) > last_trigger_line

\* C16: no persisted offset ever decreases: every step leaves each store at a
\* value greater than or equal to the one it held.
C16_OffsetsNeverDecrease ==
    [][/\ last_processed_line' >= last_processed_line
       /\ last_trigger_line' >= last_trigger_line]_vars

\* each store has been written at two different transcript lengths
C16_Witness ==
    /\ Len(fired) >= 2
    /\ last_processed_line = fired[Len(fired)]
    /\ last_trigger_line >= 2
    /\ mcp_report.tool = "prepare_chat_response"

\* C17: the context builder gives every message of the window a recency
\* weight, non-decreasing from the oldest message to the newest, and exactly
\* 1 when the window holds one message.
C17_WindowCarriesWeights ==
    \A i \in 1..Len(recent_messages) :
        /\ "weight" \in DOMAIN recent_messages[i]
        /\ Len(recent_messages) = 1 => recent_messages[i].weight = 1
        /\ i > 1 => recent_messages[i - 1].weight <= recent_messages[i].weight

\* C18: after every check_for_trigger call, fired or not, the persisted
\* offset equals the length of the transcript the call read.
C18_OffsetFollowsEveryCheck ==
    detections.results # <<>> => last_processed_line = detections.count

\* C19: once a call of the MCP server's check_for_trigger has reported a
\* record as a trigger, a later call with no append in between does not report
\* that record again.
C19_ReportedOnce == mcp_reported.again = {}

\* a participant's trigger record at position p with another record behind it
\* that has not fired
BuriedUnfired(p) ==
    /\ p < Len(chat_history)
    /\ IsUserTrigger(chat_history[p])
    /\ \A i \in 1..Len(fired) : fired[i] # p

\* C20: the detector looks at the newest record only: a trigger record that
\* has another record behind it before it fired (a participant's, or the
\* responder's reply to an earlier trigger) never fires afterwards, and what
\* fires is always a participant's trigger record that was the newest line.
C20_BuriedTriggerNeverFires ==
    /\ \A p \in 1..MaxLen :
          [](BuriedUnfired(p) => [](\A i \in 1..Len(fired) : fired[i] # p))
    /\ [](\A i \in 1..Len(fired) : IsUserTrigger(chat_history[fired[i]]))

\* a trigger record sent during the cycle of an earlier one lies unfired
\* under the responder's delivered answer, and the detector has looked at the
\* transcript since and is idle
C20_Witness ==
    /\ pc = "watching"
    /\ ~changes
    /\ outcome = "answered"
    /\ \E p \in 1..Len(chat_history) :
          /\ BuriedUnfired(p)
          /\ fired # <<>>
          /\ fired[1] < p
          /\ IsOwnLine(chat_history[p + 1])
          /\ detections.count > p

\* C21: with two detector processes on one offset store the read of the
\* offset, the comparison and the write are not one step, and both processes
\* can fire for one transcript position. A position fires a second time only
\* after a firing whose write found the store changed since its read, and
\* such a write follows a firing of the other process: a process that runs
\* alone reads and writes the offset with nothing in between and fires a
\* position once.
C21_DoubleFireOnlyByStaleWrite ==
    /\ \A j \in 1..Len(det_fired) : \A k \in (j + 1)..Len(det_fired) :
          det_fired[j].line = det_fired[k].line
          => \E m \in (j + 1)..k : det_fired[m].stale
    /\ \A m \in 1..Len(det_fired) :
          det_fired[m].stale
          => \E j \in 1..(m - 1) : det_fired[j].inst # det_fired[m].inst

\* both processes have fired for the same transcript position
C21_Witness ==
    \E j, k \in 1..Len(det_fired) :
        /\ det_fired[j].inst # det_fired[k].inst
        /\ det_fired[j].line = det_fired[k].line

\* the positions of the lines of the window that hold a record
RecordPositions(all_lines, max_messages) ==
    {k \in 1..Len(all_lines) :
        /\ k > Len(all_lines) - max_messages
        /\ JsonLoads(all_lines[k]).ok}

\* C22: get_recent_context(max_messages), when it returns, returns in
\* transcript order the {sender, message} pairs of the records among the last
\* max_messages lines, of all lines when there are no more than max_messages;
\* an absent transcript gives the empty list.
C22_WindowIsTheLastLines ==
    (reader_call.fn = "get_recent_context" /\ ~reader_call.raised) =>
        LET all_lines == reader_call.all_lines
            messages == reader_call.messages
            positions == RecordPositions(all_lines, reader_call.max_messages)
        IN  /\ ~reader_call.exists => messages = <<>>
            /\ Len(messages) = Cardinality(positions)
            /\ \E at \in [1..Len(messages) -> positions] :
                  /\ \A i, j \in 1..Len(messages) : i < j => at[i] < at[j]
                  /\ \A i \in 1..Len(messages) :
                        LET msg == JsonLoads(all_lines[at[i]])
                        IN  messages[i] = [sender |-> msg.sender,
                                           message |-> msg.message]

\* a call with max_messages = 1 on a transcript of two records returned the
\* newer one alone
C22_Witness ==
    /\ reader_call.fn = "get_recent_context"
    /\ ~reader_call.raised
    /\ reader_call.max_messages = 1
    /\ Len(reader_call.all_lines) = 2
    /\ Len(reader_call.messages) = 1
    /\ JsonLoads(reader_call.all_lines[1]).ok

\* C23: a line that does not parse as a record is skipped and the scan goes
\* on: no reader raises on it, the context reader returns every record of its
\* window, before and after the line, the scanning detector of the MCP server
\* finds a trigger record among the new lines wherever the line stands, and
\* the active detector reports no trigger for a newest line that is no record.
C23_ForeignLineIsSkipped ==
    LET all_lines == reader_call.all_lines
    IN  /\ ~reader_call.raised
        /\ reader_call.fn = "get_recent_context"
           => Len(reader_call.messages) =
                  Cardinality(RecordPositions(all_lines, reader_call.max_messages))
        /\ reader_call.fn = "mcp_check_for_trigger"
           => (reader_call.triggered <=>
                  \E k \in (reader_call.offset + 1)..Len(all_lines) :
                      /\ JsonLoads(all_lines[k]).ok
                      /\ HasTrigger(JsonLoads(all_lines[k]).message))
        /\ (/\ reader_call.fn = "check_for_trigger"
            /\ all_lines # <<>>
            /\ ~JsonLoads(all_lines[Len(all_lines)]).ok)
           => ~reader_call.triggered

\* the sends of the final answer in the current cycle
AnswerPushes == {k \in 1..Len(pushes) : pushes[k].kind = "answer"}

\* C24: delivery is best-effort. A send that fails returns False and raises
\* nothing; the send of the final answer is made once in a cycle; and the
\* step that makes it ends the cycle whether it succeeded or not, with the
\* processed offset as it was: after a failed delivery the responder is back
\* at its watcher and the answer is not sent again.
C24_DeliveryIsBestEffort ==
    /\ [](/\ Cardinality(AnswerPushes) <= 1
          /\ outcome = "undelivered"
             => /\ pc = "watching"
                /\ AnswerPushes # {}
                /\ ~pushes[Len(pushes)].returned)
    /\ [][(pc = "deliver" /\ (pc' # pc \/ pushes' # pushes))
          => /\ pc' = "watching"
             /\ last_processed_line' = last_processed_line
             /\ fired' = fired
             /\ Len(pushes') = Len(pushes) + 1
             /\ pushes'[Len(pushes')].kind = "answer"
             /\ (pushes'[Len(pushes')].returned <=> outcome' = "answered")
             /\ (~pushes'[Len(pushes')].returned <=> outcome' = "undelivered")]_vars

\* the delivery of an answer failed, the responder is at its watcher again
\* and has looked at the transcript since
C24_Witness ==
    /\ outcome = "undelivered"
    /\ pc = "watching"
    /\ ~changes
    /\ fired # <<>>
    /\ last_processed_line = fired[Len(fired)]
    /\ Len(detections.results) >= 1
    /\ ~detections.results[Len(detections.results)]

\* how a cycle ends other than with its answer delivered
FailedOutcomes == {"failed", "timed_out", "undelivered"}

\* C25: check_for_trigger stores the trigger position as the processed offset
\* when it fires, before the context is built and the response generated: all
\* through a cycle the stored offset is the position that fired. So a position
\* whose cycle failed, timed out or could not deliver never fires again (the
\* positions that fire increase strictly), and no response for it comes
\* later: the responder sends only inside a cycle, and a cycle starts only
\* with a new firing.
C25_FailedPositionIsSpent ==
    /\ [](/\ pc # "watching"
             => /\ fired # <<>>
                /\ last_processed_line = fired[Len(fired)]
          /\ \A i, j \in 1..Len(fired) : i < j => fired[i] < fired[j]
          /\ outcome \in FailedOutcomes => pc = "watching")
    /\ [][/\ pushes' # pushes
             => \/ pc # "watching"
                \/ pushes' = <<>>
          /\ (pc = "watching" /\ pc' # "watching")
             => /\ Len(fired') = Len(fired) + 1
                /\ last_processed_line' = fired'[Len(fired')]
                /\ recent_messages' = <<>>
                /\ conversation_messages' = <<>>]_vars

\* a cycle failed without writing to the transcript, and the detector has
\* looked at the same trigger record again and not fired
C25_Witness ==
    /\ outcome = "failed"
    /\ pc = "watching"
    /\ fired # <<>>
    /\ detections.count = fired[Len(fired)]
    /\ Len(detections.results) >= 2
    /\ ~detections.results[Len(detections.results)]
    /\ IsUserTrigger(chat_history[Len(chat_history)])
    /\ Len(chat_history) = fired[Len(fired)]

\* C26: at every model call of generate_response the conversation has
\* 1 + 2k turns after k completed tool rounds, begins with the user turn that
\* holds the context, alternates user and assistant turns and ends with a
\* user turn; and during a run a step leaves the turns that are there as they
\* are and at most appends behind them.
C26_ConversationAlternates ==
    /\ [](pc = "model"
          => /\ Len(conversation_messages) = 1 + 2 * rounds
             /\ conversation_messages[1] =
                    [role |-> "user", content |-> BuildContextPrompt(recent_messages)]
             /\ \A i \in 1..Len(conversation_messages) :
                    conversation_messages[i].role =
                        IF i % 2 = 1 THEN "user" ELSE "assistant"
             /\ conversation_messages[Len(conversation_messages)].role = "user")
    /\ [][(conversation_messages # <<>>
           /\ pc' \in {"model", "status", "status_wait", "tools"})
          => /\ Len(conversation_messages') >= Len(conversation_messages)
             /\ SubSeq(conversation_messages', 1, Len(conversation_messages))
                    = conversation_messages]_vars

\* the model is called for the third time, after two tool rounds
C26_Witness ==
    /\ pc = "model"
    /\ rounds = 2
    /\ Len(conversation_messages) = 5

\* argument dictionaries by their keys: none, the ones the branch of the tool
\* reads, and every key a declared tool requires
DeclaredKeys ==
    {"people", "latitude", "longitude", "address", "user", "message",
     "restaurant_name_or_address"}
ToolInputs(tool_name) == {{}, SubscriptedKeys(tool_name), DeclaredKeys}

\* C27: the names declared in TOOLS are pairwise distinct and each has a
\* branch in execute_tool: dispatching a declared name never gives the
\* "Unknown tool" string, whatever the arguments and whatever its handler
\* does; so it is in the runs of the loop.
C27_DeclaredToolsAreHandled ==
    /\ \A i, j \in 1..Len(TOOLS) : TOOLS[i] = TOOLS[j] => i = j
    /\ \A i \in 1..Len(TOOLS) :
          /\ TOOLS[i] \in HandledTools
          /\ \A tool_input \in ToolInputs(TOOLS[i]), handler \in {"ok", "raises"} :
                ExecuteTool(TOOLS[i], tool_input, handler).content[1]
                    # "Unknown tool: "
    /\ pc \in {"tools", "model"} =>
          \A k \in 1..Len(tool_results) :
              (\E i \in 1..Len(TOOLS) : TOOLS[i] = RoundToolUses[k].name)
              => tool_results[k].content[1] # "Unknown tool: "

\* declared tools have been dispatched in a run, one of them without its
\* required argument
C27_Witness ==
    /\ pc = "model"
    /\ Len(tool_results) = 3
    /\ RoundToolUses[2].name = TOOLS[7]
    /\ RoundToolUses[3].name = TOOLS[12]
    /\ tool_results[2].content[1] = "Error executing "
    /\ tool_results[3].content[1] = "result of "

\* a step in which the named tool of the MCP server returned
McpReturns(tool) ==
    /\ mcp_report'.tool = tool
    /\ mcp_vars' # mcp_vars

C29_BroadcastInTranscriptOrder ==
    \A c \in Connections :
        /\ \A i \in 1..Len(inboxes[c]) :
              /\ inboxes[c][i].line <= Len(chat_history)
              /\ chat_history[inboxes[c][i].line] = inboxes[c][i].message_json
        /\ \A i, j \in 1..Len(inboxes[c]) :
              i < j => inboxes[c][i].line < inboxes[c][j].line

\* where a user's profile holds a food, whatever its case, as
\* <<category, index>>
HeldAt(user, food) ==
    {at \in CategoryNames \X (1..4) :
        /\ at[2] <= Len(db[user][at[1]])
        /\ StrLower(db[user][at[1]][at[2]]) = food}

\* C30: when no update is under way, each food of a user's profile is in
\* at most one category and at most once in it, and that category is the one
\* the latest update of the food gave.
C30_OneCategoryPerFood ==
    (\A w \in Writers : writers[w].pc = "idle")
        => \A user \in DOMAIN db : \A food \in FoodNames :
              /\ Cardinality(HeldAt(user, food)) <= 1
              /\ \A at \in HeldAt(user, food) :
                    at[1] = food_updates[<<user, food>>]

====
